---- MODULE Spec2Model ----
(***************************************************************************)
(* A model of the tryrun / thunx runtime: the Provider registry            *)
(* (provider.ts), the resolution Context (context.ts), the Result classes  *)
(* (result.ts) and the Shell entry points (shell.ts).                      *)
(*                                                                         *)
(* JavaScript is single threaded, so the nested, synchronous calls of      *)
(* Context.get are modelled by one call stack of factory frames.  User     *)
(* factories are inputs: a direct value (truthy or falsy), or a function   *)
(* that reads a list of tokens through ctx.get and then returns a fresh    *)
(* object, returns a promise, or throws.  Factories do not catch.          *)
(* Insertion order of the JavaScript Map is not modelled: no code under    *)
(* src/ iterates a FactoryRecord other than to copy it.                    *)
(***************************************************************************)
EXTENDS Naturals, Sequences, FiniteSets, TLC

VARIABLES
    providers,    \* heap of Provider objects: providers[i] is the _factories of object i
    lastCall,     \* the last completed Provider method call
    eagerCalls,   \* number of factory invocations made by Provider methods
    built,        \* the Context objects constructed so far
    ctxProvider,  \* Context._provider
    cache,        \* the Map objects held in Context._cache, by reference
    resolving,    \* the Set objects held in Context._resolving, by reference
    stack,        \* the JavaScript call stack: the factory invocations in progress
    exc,          \* the exception propagating up the stack, if any
    promises,     \* state of the promise returned by the factory of (context, key)
    invoked,      \* invoked[c][k]: times the factory of k was called with context c
    gets,         \* number of top-level Context.get calls made
    requested,    \* requested[c]: keys Context.get was called with (top-level or nested)
    got,          \* got[c][k]: the instances Context.get(k) has returned
    last,         \* the last completed Context.get call
    actor,        \* the context whose method ran in the last step
    results,      \* the Result objects constructed so far
    shellLog,     \* the Shell and Program method calls made so far, with their outcomes
    raised,       \* the inputs given to defect, with the errors it raised
    bound,        \* bound[i][t]: the factory last given to provide for token class t
                  \* along the chain of calls that built Provider i
    signal,       \* Context.signal
    given,        \* given[c]: the signal argument the constructor of c was called with
    aborted,      \* the AbortSignal objects whose controller has been told to abort
    tasks         \* tasks[c][k]: how far the async factory of k has run since it
                  \* returned its promise to context c

provVars == <<providers, lastCall, eagerCalls>>
ctxVars == <<built, ctxProvider, cache, resolving, stack, exc, promises>>
ghostVars == <<invoked, gets, requested, got, last, actor>>
resVars == <<results>>
shellVars == <<shellLog>>
errVars == <<raised>>
tokenVars == <<bound>>
sigVars == <<signal, given, aborted>>
asyncVars == <<tasks>>
vars == <<provVars, ctxVars, ghostVars, resVars, shellVars, errVars, tokenVars, sigVars, asyncVars>>

(***************************************************************************)
(* Bounds and input sets                                                   *)
(***************************************************************************)
MaxProviders == 3
MaxGets == 2
MaxResults == 3
MaxShellCalls == 2

\* token.key of the Token classes in use
Keys == {"A", "B", "C"}
\* the Context objects a program may construct
Contexts == {"c1", "c2"}
\* direct values: 0 is falsy in JavaScript, 1 and 2 are truthy
Values == {0, 1, 2}

(***************************************************************************)
(* Values of the JavaScript heap                                           *)
(***************************************************************************)
Undefined == [kind |-> "undefined"]

\* a direct value given as TokenFactory
Value(v) == [kind |-> "value", val |-> v]

\* a factory function: reads deps in order through ctx.get, then ends as result says
Fn(deps, result) == [kind |-> "function", deps |-> deps, result |-> result]

\* the object a factory function returns: a fresh one per invocation
Object(c, key, n) == [kind |-> "object", ctx |-> c, key |-> key, n |-> n]

\* the promise a factory function returns: a fresh one per invocation
Promise(c, key, n) == [kind |-> "promise", ctx |-> c, key |-> key, n |-> n]

\* JavaScript truthiness, as the operand of ! sees it
Truthy(x) == ~(x.kind = "undefined" \/ (x.kind = "value" /\ x.val = 0))

\* new Error(message): the template literal is kept as its parts
Error(parts) == [name |-> "Error", message |-> parts]

\* a call of a property that is not a function
TypeError(parts) == [name |-> "TypeError", message |-> parts]

NoError == [name |-> "", message |-> <<>>]

\* no get call has completed yet
NoLast ==
    [ctx |-> "", key |-> "", ok |-> FALSE, hit |-> FALSE, value |-> Undefined,
     error |-> NoError, depth |-> 0]

\* no exception is propagating
NoExc == [thrown |-> FALSE, error |-> NoError]

\* Map.prototype.get / set / delete / has and new Map()
EmptyMap == [k \in {} |-> Undefined]
MapHas(m, k) == k \in DOMAIN m
MapGet(m, k) == IF k \in DOMAIN m THEN m[k] ELSE Undefined
MapSet(m, k, v) == [x \in (DOMAIN m) \cup {k} |-> IF x = k THEN v ELSE m[x]]
MapDelete(m, k) == [x \in (DOMAIN m) \ {k} |-> m[x]]

(***************************************************************************)
(* Provider (provider.ts).  Each method is an operator from the receiver's *)
(* _factories to: this (the receiver's _factories after the call), threw,  *)
(* error, ret (the _factories of the returned Provider, or the returned    *)
(* factory for get) and calls (the factory invocations made).              *)
(***************************************************************************)
Returned(this, ret) ==
    [this |-> this, threw |-> FALSE, error |-> NoError, ret |-> ret, calls |-> 0]

Thrown(this, error) ==
    [this |-> this, threw |-> TRUE, error |-> error, ret |-> Undefined, calls |-> 0]

\* provider(): new Provider() with no factories
EmptyProvider == EmptyMap

\* provide calling the factory at once instead of storing it
ProviderProvideEager(factories, key, factory) ==
    [Returned(factories, MapSet(factories, key, factory)) EXCEPT
        !.calls = IF factory.kind = "function" THEN 1 ELSE 0]

\* provide keeping the factory a key is already bound to
ProviderProvideKeepFirst(factories, key, factory) ==
    Returned(factories,
             IF MapHas(factories, key) THEN factories
             ELSE MapSet(factories, key, factory))

ProviderProvide(factories, key, factory) ==
    Returned(factories, MapSet(factories, key, factory))

NotProvidedError(key) == Error(<<"Token \"", key, "\" not provided">>)

\* get without the check of the looked-up factory
ProviderGetUnchecked(factories, key) ==
    Returned(factories, MapGet(factories, key))

ProviderGet(factories, key) ==
    LET factory == MapGet(factories, key)
    IN  IF ~Truthy(factory)
        THEN Thrown(factories, NotProvidedError(key))
        ELSE Returned(factories, factory)

\* the for-of loop of pick over the tokens not yet visited
RECURSIVE PickLoop(_, _, _)
PickLoop(source, tokens, acc) ==
    IF tokens = {} THEN acc
    ELSE LET token == CHOOSE t \in tokens : TRUE
             factory == MapGet(source, token)
         IN  PickLoop(source, tokens \ {token},
                      IF Truthy(factory) THEN MapSet(acc, token, factory) ELSE acc)

ProviderPick(factories, tokens) ==
    Returned(factories, PickLoop(factories, tokens, EmptyMap))

\* the for-of loop of omit over the tokens not yet visited
RECURSIVE OmitLoop(_, _)
OmitLoop(acc, tokens) ==
    IF tokens = {} THEN acc
    ELSE LET token == CHOOSE t \in tokens : TRUE
         IN  OmitLoop(MapDelete(acc, token), tokens \ {token})

ProviderOmit(factories, tokens) ==
    Returned(factories, OmitLoop(factories, tokens))

\* class Provider declares no merge member: the call a.merge(b) raises
ProviderMerge(factories, other) ==
    Thrown(factories, TypeError(<<"merge", " is not a function">>))

(***************************************************************************)
(* Provider method calls as steps                                          *)
(***************************************************************************)
NoCall ==
    [op |-> "", recv |-> 0, key |-> "", tokens |-> {}, other |-> 0,
     before |-> EmptyMap, threw |-> FALSE, error |-> NoError, ret |-> 0,
     value |-> Undefined]

\* the heap after a method call r on receiver i that returns a Provider
HeapAfter(i, r) ==
    LET kept == [providers EXCEPT ![i] = r.this]
    IN  IF r.threw THEN kept ELSE Append(kept, r.ret)

\* other: the second argument of the call, the factory given to provide or the
\* Provider given to merge
CallRecord(op, i, key, tokens, other, r) ==
    [op |-> op, recv |-> i, key |-> key, tokens |-> tokens, other |-> other,
     before |-> providers[i], threw |-> r.threw, error |-> r.error,
     ret |-> IF r.threw \/ op = "get" THEN 0 ELSE Len(providers) + 1,
     value |-> IF op = "get" THEN r.ret ELSE Undefined]

\* a method call whose returned Provider the program keeps
ProviderStep(op, i, key, tokens, other, r) ==
    /\ stack = <<>>
    /\ Len(providers) < MaxProviders
    /\ providers' = HeapAfter(i, r)
    /\ lastCall' = CallRecord(op, i, key, tokens, other, r)
    /\ eagerCalls' = eagerCalls + r.calls
    /\ UNCHANGED <<ctxVars, ghostVars, resVars, shellVars, errVars, tokenVars, sigVars, asyncVars>>

\* a method call whose result the program does not keep
Dropped(op, i, key, tokens, other, r) ==
    /\ stack = <<>>
    /\ providers' = [providers EXCEPT ![i] = r.this]
    /\ lastCall' = [CallRecord(op, i, key, tokens, other, r) EXCEPT !.ret = 0]
    /\ eagerCalls' = eagerCalls + r.calls
    /\ UNCHANGED <<ctxVars, ghostVars, resVars, shellVars, errVars, tokenVars, sigVars, asyncVars>>

FactoryPool ==
    {Value(0), Value(1), Fn(<<>>, "return"), Fn(<<"A">>, "return"),
     Fn(<<"B">>, "return"), Fn(<<"B", "C">>, "return"), Fn(<<>>, "throw"),
     Fn(<<>>, "promise")}

Provide ==
    \E i \in 1..Len(providers), key \in Keys, factory \in FactoryPool :
        ProviderStep("provide", i, key, {}, factory,
                     ProviderProvide(providers[i], key, factory))

Pick ==
    \E i \in 1..Len(providers), tokens \in SUBSET Keys :
        ProviderStep("pick", i, "", tokens, 0, ProviderPick(providers[i], tokens))

Omit ==
    \E i \in 1..Len(providers), tokens \in SUBSET Keys :
        ProviderStep("omit", i, "", tokens, 0, ProviderOmit(providers[i], tokens))

Merge ==
    \E i \in 1..Len(providers), j \in 1..Len(providers) :
        ProviderStep("merge", i, "", {}, j, ProviderMerge(providers[i], providers[j]))

\* the mutators called on a Provider without keeping what they return
CallProvide ==
    \E i \in 1..Len(providers), key \in Keys, factory \in FactoryPool :
        Dropped("provide", i, key, {}, factory,
                ProviderProvide(providers[i], key, factory))

CallPick ==
    \E i \in 1..Len(providers), tokens \in SUBSET Keys :
        Dropped("pick", i, "", tokens, 0, ProviderPick(providers[i], tokens))

CallOmit ==
    \E i \in 1..Len(providers), tokens \in SUBSET Keys :
        Dropped("omit", i, "", tokens, 0, ProviderOmit(providers[i], tokens))

CallMerge ==
    \E i \in 1..Len(providers), j \in 1..Len(providers) :
        Dropped("merge", i, "", {}, j, ProviderMerge(providers[i], providers[j]))

\* provider.get(token) called directly: it returns a factory, not a Provider
CallGet ==
    \E i \in 1..Len(providers), key \in Keys :
        Dropped("get", i, key, {}, 0, ProviderGet(providers[i], key))

(***************************************************************************)
(* Context (context.ts)                                                    *)
(***************************************************************************)
\* one Map shared by every instance, as a static field would be
CacheRefShared(c) == "c1"

\* the Map that field initializer _cache = new Map() gives instance c
CacheRef(c) == c

\* the Set that field initializer _resolving = new Set() gives instance c
ResolvingRef(c) == c

CacheOf(c) == cache[CacheRef(c)]
ResolvingOf(c) == resolving[ResolvingRef(c)]

\* a get that never takes the cached branch
CacheHasNever(c, key) == FALSE

\* this._cache.has(key)
CacheHas(c, key) == MapHas(CacheOf(c), key)

\* this._resolving.has(key)
IsResolving(c, key) == key \in ResolvingOf(c)

\* a get whose finally block is missing: the key stays in the set
FinallyMissing(inProgress, key) == inProgress

\* finally { this._resolving.delete(key) } on the Set inProgress
Finally(inProgress, key) == inProgress \ {key}

CircularError(key) == Error(<<"Circular dependency detected: \"", key, "\"">>)

\* what a factory function throws when its result is "throw"
FactoryError(key) == [name |-> "FactoryError", message |-> <<key>>]

\* Context._resolve: a function is called with the context, anything else is the instance
ResolveCalls(factory) == factory.kind = "function"

\* a get whose cycle check sits inside the try block, so that the finally block
\* runs for the circular-dependency error as well
ContextGetCycleInTry(c, key) ==
    IF CacheHas(c, key)
    THEN [kind |-> "return", hit |-> TRUE, marked |-> FALSE,
          value |-> MapGet(CacheOf(c), key), error |-> NoError]
    ELSE IF IsResolving(c, key)
    THEN [kind |-> "throw", hit |-> FALSE, marked |-> TRUE,
          value |-> Undefined, error |-> CircularError(key)]
    ELSE LET r == ProviderGet(ctxProvider[c], key)
         IN  IF r.threw
             THEN [kind |-> "throw", hit |-> FALSE, marked |-> TRUE,
                   value |-> Undefined, error |-> r.error]
             ELSE IF ResolveCalls(r.ret)
             THEN [kind |-> "invoke", hit |-> FALSE, marked |-> TRUE,
                   value |-> r.ret, error |-> NoError]
             ELSE [kind |-> "return", hit |-> FALSE, marked |-> TRUE,
                   value |-> r.ret, error |-> NoError]

\* Context.get up to the point where it returns, throws or calls a factory function.
\* marked: the call went through _resolving.add and the finally block.
ContextGet(c, key) ==
    IF CacheHas(c, key)
    THEN [kind |-> "return", hit |-> TRUE, marked |-> FALSE,
          value |-> MapGet(CacheOf(c), key), error |-> NoError]
    ELSE IF IsResolving(c, key)
    THEN [kind |-> "throw", hit |-> FALSE, marked |-> FALSE,
          value |-> Undefined, error |-> CircularError(key)]
    ELSE LET r == ProviderGet(ctxProvider[c], key)
         IN  IF r.threw
             THEN [kind |-> "throw", hit |-> FALSE, marked |-> TRUE,
                   value |-> Undefined, error |-> r.error]
             ELSE IF ResolveCalls(r.ret)
             THEN [kind |-> "invoke", hit |-> FALSE, marked |-> TRUE,
                   value |-> r.ret, error |-> NoError]
             ELSE [kind |-> "return", hit |-> FALSE, marked |-> TRUE,
                   value |-> r.ret, error |-> NoError]

Frame(c, key, factory) == [ctx |-> c, key |-> key, factory |-> factory, pc |-> 1]

Top == stack[Len(stack)]
Callers == SubSeq(stack, 1, Len(stack) - 1)

\* the caller's frame goes on to its next statement once the nested get has returned
Resume(callers) ==
    IF callers = <<>> THEN callers
    ELSE [callers EXCEPT ![Len(callers)].pc = @ + 1]

Returns(c, key, value, hit, depth) ==
    [ctx |-> c, key |-> key, ok |-> TRUE, hit |-> hit, value |-> value,
     error |-> NoError, depth |-> depth]

Throws(c, key, error, depth) ==
    [ctx |-> c, key |-> key, ok |-> FALSE, hit |-> FALSE, value |-> Undefined,
     error |-> error, depth |-> depth]

\* one call get(key) on context c, made with callers suspended below it
Call(c, key, callers) ==
    LET o == ContextGet(c, key)
    IN  /\ requested' = [requested EXCEPT ![c] = @ \cup {key}]
        /\ actor' = c
        /\ promises' = promises
        /\ cache' = IF o.kind = "return" /\ ~o.hit
                    THEN [cache EXCEPT ![CacheRef(c)] = MapSet(@, key, o.value)]
                    ELSE cache
        /\ resolving' =
              IF o.kind = "invoke"
              THEN [resolving EXCEPT ![ResolvingRef(c)] = @ \cup {key}]
              ELSE IF o.marked
              THEN [resolving EXCEPT ![ResolvingRef(c)] = Finally(@ \cup {key}, key)]
              ELSE resolving
        /\ stack' = IF o.kind = "invoke" THEN Append(callers, Frame(c, key, o.value))
                    ELSE IF o.kind = "return" THEN Resume(callers)
                    ELSE callers
        /\ invoked' = IF o.kind = "invoke"
                      THEN [invoked EXCEPT ![c][key] = @ + 1]
                      ELSE invoked
        /\ exc' = IF o.kind = "throw" /\ callers # <<>>
                  THEN [thrown |-> TRUE, error |-> o.error]
                  ELSE exc
        /\ last' = IF o.kind = "return"
                   THEN Returns(c, key, o.value, o.hit, Len(callers))
                   ELSE IF o.kind = "throw"
                   THEN Throws(c, key, o.error, Len(callers))
                   ELSE last
        /\ got' = IF o.kind = "return"
                  THEN [got EXCEPT ![c][key] = @ \cup {o.value}]
                  ELSE got

Running == stack # <<>> /\ ~exc.thrown

\* the AbortSignal objects of the AbortControllers the caller holds
Signals == {[kind |-> "signal", owner |-> "caller", id |-> n] : n \in {"s1", "s2"}}

\* new AbortController().signal evaluated in the constructor of c: the
\* controller is referenced by nothing once the constructor has returned
DefaultSignal(c) == [kind |-> "signal", owner |-> "Context", id |-> c]

\* a constructor that always makes its own signal
ContextSignalIgnored(arg, c) == DefaultSignal(c)

\* signal ?? new AbortController().signal
ContextSignal(arg, c) == IF arg = Undefined THEN DefaultSignal(c) ELSE arg

\* the body of the constructor, called with provider i and the argument arg
Construct(c, i, arg) ==
    /\ built' = built \cup {c}
    /\ ctxProvider' = [ctxProvider EXCEPT ![c] = providers[i]]
    /\ signal' = [signal EXCEPT ![c] = ContextSignal(arg, c)]
    /\ given' = [given EXCEPT ![c] = arg]
    /\ cache' = [cache EXCEPT ![CacheRef(c)] = EmptyMap]
    /\ resolving' = [resolving EXCEPT ![ResolvingRef(c)] = {}]

\* new Context(provider): the constructor
NewContext ==
    \E c \in Contexts \ built, i \in 1..Len(providers) :
        /\ stack = <<>>
        /\ Construct(c, i, Undefined)
        /\ UNCHANGED <<stack, exc, promises, provVars, ghostVars, resVars, shellVars,
                       errVars, tokenVars, aborted, asyncVars>>

\* new Context(provider, signal)
NewContextWith ==
    \E c \in Contexts \ built, i \in 1..Len(providers), arg \in Signals :
        /\ stack = <<>>
        /\ Construct(c, i, arg)
        /\ UNCHANGED <<stack, exc, promises, provVars, ghostVars, resVars, shellVars,
                       errVars, tokenVars, aborted, asyncVars>>

\* controller.abort() on a controller the caller holds
Abort ==
    \E s \in Signals \ aborted :
        /\ stack = <<>>
        /\ aborted' = aborted \cup {s}
        /\ UNCHANGED <<signal, given, provVars, ctxVars, ghostVars, resVars, shellVars,
                       errVars, tokenVars, asyncVars>>

\* ctx.get(token) called from outside any factory
GetCall ==
    \E c \in built, key \in Keys :
        /\ stack = <<>>
        /\ gets < MaxGets
        /\ gets' = gets + 1
        /\ Call(c, key, <<>>)
        /\ UNCHANGED <<built, ctxProvider, provVars, resVars, shellVars, errVars, tokenVars, sigVars, asyncVars>>

\* the running factory calls ctx.get(dep) for its next dependency
FactoryRead ==
    /\ Running
    /\ Top.pc <= Len(Top.factory.deps)
    /\ Call(Top.ctx, Top.factory.deps[Top.pc], stack)
    /\ UNCHANGED <<gets, built, ctxProvider, provVars, resVars, shellVars, errVars, tokenVars, sigVars, asyncVars>>

\* the running factory returns: get caches the instance, runs finally and returns it
FactoryReturn ==
    /\ Running
    /\ Top.pc > Len(Top.factory.deps)
    /\ Top.factory.result # "throw"
    /\ LET c == Top.ctx
           key == Top.key
           instance == IF Top.factory.result = "promise"
                       THEN Promise(c, key, invoked[c][key])
                       ELSE Object(c, key, invoked[c][key])
       IN  /\ cache' = [cache EXCEPT ![CacheRef(c)] = MapSet(@, key, instance)]
           /\ resolving' = [resolving EXCEPT ![ResolvingRef(c)] = Finally(@, key)]
           /\ stack' = Resume(Callers)
           /\ promises' = IF instance.kind = "promise"
                          THEN [promises EXCEPT ![c][key] = "pending"]
                          ELSE promises
           /\ last' = Returns(c, key, instance, FALSE, Len(stack) - 1)
           /\ got' = [got EXCEPT ![c][key] = @ \cup {instance}]
           /\ actor' = c
    /\ UNCHANGED <<exc, invoked, gets, requested, built, ctxProvider, provVars,
                   resVars, shellVars, errVars, tokenVars, sigVars, asyncVars>>

\* the running factory throws
FactoryThrow ==
    /\ Running
    /\ Top.pc > Len(Top.factory.deps)
    /\ Top.factory.result = "throw"
    /\ exc' = [thrown |-> TRUE, error |-> FactoryError(Top.key)]
    /\ actor' = Top.ctx
    /\ UNCHANGED <<built, ctxProvider, cache, resolving, stack, promises, invoked,
                   gets, requested, got, last, provVars, resVars, shellVars, errVars, tokenVars, sigVars, asyncVars>>

\* an exception leaves the get call of the top frame through its finally block
Unwind ==
    /\ stack # <<>>
    /\ exc.thrown
    /\ resolving' = [resolving EXCEPT ![ResolvingRef(Top.ctx)] = Finally(@, Top.key)]
    /\ stack' = Callers
    /\ exc' = IF Callers = <<>> THEN NoExc ELSE exc
    /\ last' = Throws(Top.ctx, Top.key, exc.error, Len(stack) - 1)
    /\ actor' = Top.ctx
    /\ UNCHANGED <<built, ctxProvider, cache, promises, invoked, gets, requested,
                   got, provVars, resVars, shellVars, errVars, tokenVars, sigVars, asyncVars>>

\* the promise a factory returned settles
Settle ==
    \E c \in Contexts, key \in Keys, state \in {"fulfilled", "rejected"} :
        /\ stack = <<>>
        /\ promises[c][key] = "pending"
        /\ promises' = [promises EXCEPT ![c][key] = state]
        /\ UNCHANGED <<built, ctxProvider, cache, resolving, stack, exc, ghostVars,
                       provVars, resVars, shellVars, errVars, tokenVars, sigVars, asyncVars>>

(***************************************************************************)
(* Async factories.  An async function returns its promise at its first    *)
(* await; what it does afterwards runs from the event loop, when the call  *)
(* stack is empty, and a throw inside it rejects the promise it returned.  *)
(***************************************************************************)
\* async (ctx) => { await null; for (const t of later) await ctx.get(t); return {} }
AsyncFn(later) ==
    [kind |-> "function", deps |-> <<>>, result |-> "promise", later |-> later]

\* the tokens a factory gets after its first await
Later(factory) == IF "later" \in DOMAIN factory THEN factory.later ELSE <<>>

\* an async factory that has not run past its first await
NoTask == [pc |-> 1, state |-> "ready", awaits |-> Undefined]

\* some async factory is between two awaits: its code is on the call stack
Calling == \E c \in Contexts, k \in Keys : tasks[c][k].state = "calling"

\* ctx.get(token) called from outside any factory, from the event loop
TopGet ==
    /\ ~Calling
    /\ GetCall

\* the async factory of key goes on after an await and calls ctx.get(later[pc])
TaskGet ==
    \E c \in built, key \in Keys :
        /\ stack = <<>>
        /\ ~Calling
        /\ promises[c][key] = "pending"
        /\ tasks[c][key].state = "ready"
        /\ tasks[c][key].pc <= Len(Later(ctxProvider[c][key]))
        /\ tasks' = [tasks EXCEPT ![c][key].state = "calling"]
        /\ Call(c, Later(ctxProvider[c][key])[tasks[c][key].pc], <<>>)
        /\ UNCHANGED <<gets, built, ctxProvider, provVars, resVars, shellVars, errVars,
                       tokenVars, sigVars>>

\* ctx.get has come back to the async factory: it awaits the instance, or the
\* error get threw rejects the promise the factory returned
TaskAwait ==
    \E c \in built, key \in Keys :
        /\ stack = <<>>
        /\ tasks[c][key].state = "calling"
        /\ IF last.ok
           THEN /\ tasks' = [tasks EXCEPT ![c][key].state = "awaiting",
                                          ![c][key].awaits = last.value]
                /\ promises' = promises
           ELSE /\ tasks' = [tasks EXCEPT ![c][key].state = "done"]
                /\ promises' = [promises EXCEPT ![c][key] = "rejected"]
        /\ UNCHANGED <<built, ctxProvider, cache, resolving, stack, exc, ghostVars,
                       provVars, resVars, shellVars, errVars, tokenVars, sigVars>>

\* await x can go on: x is not a promise, or a promise that has settled
Settled(x) ==
    IF x.kind = "promise" THEN promises[x.ctx][x.key] # "pending" ELSE TRUE

\* the awaited instance has settled: the async factory goes on, or is rejected with it
TaskResume ==
    \E c \in built, key \in Keys :
        /\ stack = <<>>
        /\ ~Calling
        /\ tasks[c][key].state = "awaiting"
        /\ Settled(tasks[c][key].awaits)
        /\ LET x == tasks[c][key].awaits
           IN  IF x.kind = "promise" /\ promises[x.ctx][x.key] = "rejected"
               THEN /\ tasks' = [tasks EXCEPT ![c][key].state = "done"]
                    /\ promises' = [promises EXCEPT ![c][key] = "rejected"]
               ELSE /\ tasks' = [tasks EXCEPT ![c][key].state = "ready",
                                              ![c][key].pc = @ + 1]
                    /\ promises' = promises
        /\ UNCHANGED <<built, ctxProvider, cache, resolving, stack, exc, ghostVars,
                       provVars, resVars, shellVars, errVars, tokenVars, sigVars>>

\* the async factory returns or throws after its last get: its promise settles
TaskFinish ==
    \E c \in built, key \in Keys, state \in {"fulfilled", "rejected"} :
        /\ stack = <<>>
        /\ ~Calling
        /\ promises[c][key] = "pending"
        /\ tasks[c][key].state = "ready"
        /\ tasks[c][key].pc > Len(Later(ctxProvider[c][key]))
        /\ tasks' = [tasks EXCEPT ![c][key].state = "done"]
        /\ promises' = [promises EXCEPT ![c][key] = state]
        /\ UNCHANGED <<built, ctxProvider, cache, resolving, stack, exc, ghostVars,
                       provVars, resVars, shellVars, errVars, tokenVars, sigVars>>

(***************************************************************************)
(* Initial values shared by the specifications                             *)
(***************************************************************************)
InitProv(P) ==
    /\ providers = <<P>>
    /\ lastCall = NoCall
    /\ eagerCalls = 0

InitCtx(B, P) ==
    /\ built = B
    /\ ctxProvider = [c \in Contexts |-> P]
    /\ cache = [c \in Contexts |-> EmptyMap]
    /\ resolving = [c \in Contexts |-> {}]
    /\ stack = <<>>
    /\ exc = NoExc
    /\ promises = [c \in Contexts |-> [k \in Keys |-> "none"]]

InitGhost ==
    /\ invoked = [c \in Contexts |-> [k \in Keys |-> 0]]
    /\ gets = 0
    /\ requested = [c \in Contexts |-> {}]
    /\ got = [c \in Contexts |-> [k \in Keys |-> {}]]
    /\ last = NoLast
    /\ actor = ""

InitRes == results = <<>>
InitShell == shellLog = <<>>
InitErr == raised = <<>>
InitTokens == bound = <<>>

\* the Contexts in B have been constructed without a signal argument
InitSig(B) ==
    /\ signal = [c \in Contexts |-> IF c \in B THEN ContextSignal(Undefined, c)
                                    ELSE Undefined]
    /\ given = [c \in Contexts |-> Undefined]
    /\ aborted = {}

\* no async factory has been called yet
InitAsync == tasks = [c \in Contexts |-> [k \in Keys |-> NoTask]]

(***************************************************************************)
(* SpecProvider: the Provider algebra alone, from provider()               *)
(***************************************************************************)
InitProvider ==
    /\ InitProv(EmptyProvider)
    /\ InitCtx({}, EmptyProvider)
    /\ InitGhost
    /\ InitRes
    /\ InitShell
    /\ InitErr
    /\ InitTokens
    /\ InitSig({})
    /\ InitAsync

NextProvider == Provide \/ Pick \/ Omit \/ Merge \/ CallGet

SpecProvider == InitProvider /\ [][NextProvider]_vars

(***************************************************************************)
(* SpecContext: two Contexts built from one Provider                       *)
(***************************************************************************)
\* the Providers a chain of provide calls over FactoryPool can build
BaseProviders ==
    {[k \in {x \in Keys : f[x] # Undefined} |-> f[k]] :
        f \in [Keys -> FactoryPool \cup {Undefined}]}

InitContext ==
    \E P \in BaseProviders :
        /\ InitProv(P)
        /\ InitCtx(Contexts, P)
        /\ InitGhost
        /\ InitRes
        /\ InitShell
        /\ InitErr
        /\ InitTokens
        /\ InitSig(Contexts)
        /\ InitAsync

NextContext ==
    GetCall \/ FactoryRead \/ FactoryReturn \/ FactoryThrow \/ Unwind \/ Settle

SpecContext == InitContext /\ [][NextContext]_vars

(***************************************************************************)
(* SpecScoped: Contexts built from P.pick(A, B).omit(B)                    *)
(***************************************************************************)
\* the Provider that P.pick(A, B).omit(B) returns
Scoped(P) == ProviderOmit(ProviderPick(P, {"A", "B"}).ret, {"B"}).ret

InitScoped ==
    \E P \in {Q \in BaseProviders : {"A", "B"} \subseteq DOMAIN Q} :
        /\ providers = <<P, ProviderPick(P, {"A", "B"}).ret, Scoped(P)>>
        /\ lastCall = NoCall
        /\ eagerCalls = 0
        /\ InitCtx(Contexts, Scoped(P))
        /\ InitGhost
        /\ InitRes
        /\ InitShell
        /\ InitErr
        /\ InitTokens
        /\ InitSig(Contexts)
        /\ InitAsync

SpecScoped == InitScoped /\ [][NextContext]_vars

(***************************************************************************)
(* Result (result.ts)                                                      *)
(***************************************************************************)
\* new Success(value): the fields the class body and the constructor set
Success(value) ==
    [TypeId |-> "Result", KeyId |-> "Success", value |-> value,
     isSuccess |-> TRUE, isFailure |-> FALSE]

\* a Failure whose isSuccess was copied from Success unchanged
FailureBoth(error) ==
    [TypeId |-> "Result", KeyId |-> "Failure", error |-> error,
     isSuccess |-> TRUE, isFailure |-> TRUE]

\* new Failure(error): the fields the class body and the constructor set
Failure(error) ==
    [TypeId |-> "Result", KeyId |-> "Failure", error |-> error,
     isSuccess |-> FALSE, isFailure |-> TRUE]

MakeSuccess ==
    \E value \in Values :
        /\ Len(results) < MaxResults
        /\ results' = Append(results, Success(value))
        /\ UNCHANGED <<provVars, ctxVars, ghostVars, shellVars, errVars, tokenVars, sigVars, asyncVars>>

MakeFailure ==
    \E error \in Values :
        /\ Len(results) < MaxResults
        /\ results' = Append(results, Failure(error))
        /\ UNCHANGED <<provVars, ctxVars, ghostVars, shellVars, errVars, tokenVars, sigVars, asyncVars>>

InitResult ==
    /\ InitProv(EmptyProvider)
    /\ InitCtx({}, EmptyProvider)
    /\ InitGhost
    /\ InitRes
    /\ InitShell
    /\ InitErr
    /\ InitTokens
    /\ InitSig({})
    /\ InitAsync

NextResult == MakeSuccess \/ MakeFailure

SpecResult == InitResult /\ [][NextResult]_vars

(***************************************************************************)
(* Shell (shell.ts) and Program (program.ts): every method body is a       *)
(* single throw.  A program handed to a method is described by what it     *)
(* would do if it ran; no method under src/ constructs one.                *)
(***************************************************************************)
NotImplemented(method) == Error(<<"Shell.", method, " not implemented">>)

ProgramNotImplemented(method) == Error(<<"Program.", method, " not implemented">>)

\* static key of the TypedError classes a program fails with
ErrorKeys == {"NameX", "NameY"}

\* the tokens a program still requires
Requirements == {{}, {"A"}}

\* a program that settles with value v, and one that fails with a TypedError of key k
Succeeds(v, requires) == [settles |-> "success", with |-> v, requires |-> requires]
Fails(k, requires) == [settles |-> "failure", with |-> k, requires |-> requires]

\* the programs handed to Shell.run: what they would settle with if they ran
Programs ==
    {Succeeds(v, r) : v \in Values, r \in Requirements}
    \cup {Fails(k, r) : k \in ErrorKeys, r \in Requirements}

\* RunOptions.mode; "" stands for an options object without mode
Modes == {"", "result", "unwrap"}

\* RetryPolicy.times
Times == {0, 1, 3}

\* a method that throws before it reads an argument: nothing is returned, no
\* callback is invoked (calls) and the receiver (this) is left as it was
Raise(method, program, mode, args, error) ==
    [method |-> method, program |-> program, mode |-> mode, args |-> args,
     this |-> program, threw |-> TRUE, error |-> error, ret |-> Undefined,
     calls |-> 0]

\* Shell.run(program, options)
ShellRun(program, mode) ==
    Raise("run", program, mode, <<>>, NotImplemented("run"))

\* Shell.try(fn) and Shell.fail(error)
ShellBuild(method, program) ==
    Raise(method, program, "", <<>>, NotImplemented(method))

\* Shell.all / Shell.any / Shell.race (programs); order is the order in which
\* the programs would settle if they ran
ShellCombine(method, programs, order) ==
    Raise(method, Undefined, "", [programs |-> programs, order |-> order],
          NotImplemented(method))

\* Program.retry(policy)
ProgramRetry(program, times) ==
    Raise("retry", program, "", [times |-> times], ProgramNotImplemented("retry"))

\* Program.catch(name, fn)
ProgramCatch(program, name) ==
    Raise("catch", program, "", [name |-> name], ProgramNotImplemented("catch"))

\* Program.provide / then / tap / timeout / finally
ProgramBuild(method, program) ==
    Raise(method, program, "", <<>>, ProgramNotImplemented(method))

\* the programs given to all, any and race
Pool == {Succeeds(1, {}), Succeeds(2, {}), Fails("NameX", {}), Fails("NameY", {})}

\* pairs over Pool, and the list [s1_success, s2_failure, s3_success]
ProgramLists ==
    {<<p, q>> : p \in Pool, q \in Pool}
    \cup {<<Succeeds(1, {}), Fails("NameX", {}), Succeeds(2, {})>>}

\* the orders in which n programs can settle
Orders(n) ==
    {o \in [1..n -> 1..n] : \A i, j \in 1..n : o[i] = o[j] => i = j}

\* the log of calls takes one more entry
Logged(entry) ==
    /\ shellLog' = Append(shellLog, entry)
    /\ UNCHANGED <<provVars, ctxVars, ghostVars, resVars, errVars, tokenVars, sigVars, asyncVars>>

Run ==
    \E program \in Programs, mode \in Modes :
        /\ Len(shellLog) < MaxShellCalls
        /\ Logged(ShellRun(program, mode))

Build ==
    \E program \in Programs :
        /\ Len(shellLog) < MaxShellCalls
        /\ Logged(ShellBuild(IF program.settles = "success" THEN "try" ELSE "fail",
                             program))

Combine ==
    \E method \in {"all", "any", "race"}, programs \in ProgramLists :
        \E order \in Orders(Len(programs)) :
            /\ Len(shellLog) < MaxShellCalls
            /\ Logged(ShellCombine(method, programs, order))

Retry ==
    \E program \in Programs, times \in Times :
        /\ Len(shellLog) < MaxShellCalls
        /\ Logged(ProgramRetry(program, times))

Catch ==
    \E program \in Programs, name \in ErrorKeys :
        /\ Len(shellLog) < MaxShellCalls
        /\ Logged(ProgramCatch(program, name))

Chain ==
    \E program \in Programs,
       method \in {"provide", "then", "tap", "timeout", "finally"} :
        /\ Len(shellLog) < MaxShellCalls
        /\ Logged(ProgramBuild(method, program))

InitRun ==
    /\ InitProv(EmptyProvider)
    /\ InitCtx({}, EmptyProvider)
    /\ InitGhost
    /\ InitRes
    /\ InitShell
    /\ InitErr
    /\ InitTokens
    /\ InitSig({})
    /\ InitAsync

NextShell == Run \/ Build \/ Combine \/ Retry \/ Catch \/ Chain

SpecShell == InitRun /\ [][NextShell]_vars

(***************************************************************************)
(* SpecTokens: Token classes (token.ts) bound in Providers.  Token(key)     *)
(* returns a new class on every call and keeps no registry of the keys it   *)
(* was given, so two classes can carry the same key.                        *)
(***************************************************************************)
\* the classes made by Token("A"), Token("A") again, and Token("B")
TokenClasses ==
    {[id |-> "T1", key |-> "A"], [id |-> "T2", key |-> "A"],
     [id |-> "T3", key |-> "B"]}

\* truthy factories, so that Provider.get returns whatever is bound
TokenFactories == {Value(1), Value(2), Fn(<<>>, "return")}

\* provider.provide(token, factory) with a Token class
ProvideToken ==
    \E i \in 1..Len(providers), token \in TokenClasses, factory \in TokenFactories :
        LET r == ProviderProvide(providers[i], token.key, factory)
        IN  /\ Len(providers) < MaxProviders
            /\ providers' = HeapAfter(i, r)
            /\ lastCall' = CallRecord("provide", i, token.key, {}, factory, r)
            /\ eagerCalls' = eagerCalls + r.calls
            /\ bound' = Append(bound, MapSet(bound[i], token.id, factory))
            /\ UNCHANGED <<ctxVars, ghostVars, resVars, shellVars, errVars, sigVars, asyncVars>>

\* provider.get(token) with a Token class
LookupToken ==
    \E i \in 1..Len(providers), token \in TokenClasses :
        LET r == ProviderGet(providers[i], token.key)
        IN  /\ providers' = [providers EXCEPT ![i] = r.this]
            /\ lastCall' = [CallRecord("get", i, token.key, {}, 0, r) EXCEPT !.ret = 0]
            /\ eagerCalls' = eagerCalls + r.calls
            /\ UNCHANGED <<ctxVars, ghostVars, resVars, shellVars, errVars, tokenVars, sigVars, asyncVars>>

InitTokenProviders ==
    /\ InitProv(EmptyProvider)
    /\ InitCtx({}, EmptyProvider)
    /\ InitGhost
    /\ InitRes
    /\ InitShell
    /\ InitErr
    /\ bound = <<EmptyMap>>
    /\ InitSig({})
    /\ InitAsync

NextTokens == ProvideToken \/ LookupToken

SpecTokens == InitTokenProviders /\ [][NextTokens]_vars

(***************************************************************************)
(* SpecDefect: TypedError, fail and defect (errors.ts).  An Error object    *)
(* is its message and cause, which the Error constructor defines as         *)
(* non-enumerable own properties, and own, its enumerable own properties.   *)
(***************************************************************************)
MaxRaised == 3

\* the value of a [TypeId] or [KeyId] field
Tag(name) == [kind |-> "tag", name |-> name]

\* new Error(message, { cause })
NewError(message, cause) ==
    [kind |-> "error", message |-> message, cause |-> cause, own |-> EmptyMap]

\* error.name = value: an assignment defines an enumerable own property
Assigned(error, name, value) ==
    [error EXCEPT !.own = MapSet(@, name, value)]

\* { ...error }: the enumerable own properties, and nothing else
Spread(error) == error.own

\* error instanceof Error
InstanceOfError(x) == x.kind = "error"

\* new (TypedError(key))(shape): super(message, { cause }), then the class
\* fields, then Object.assign(this, rest)
TypedError(key, shape) ==
    LET rest == [k \in (DOMAIN shape) \ {"message", "cause"} |-> shape[k]]
        fields == [k \in {"TypeId", "KeyId"} |->
                      IF k = "TypeId" THEN Tag("Error") ELSE Tag(key)]
    IN  [kind |-> "error",
         message |-> IF "message" \in DOMAIN shape THEN shape["message"] ELSE "",
         cause |-> IF "cause" \in DOMAIN shape THEN shape["cause"] ELSE Undefined,
         own |-> [k \in (DOMAIN fields) \cup (DOMAIN rest) |->
                     IF k \in DOMAIN rest THEN rest[k] ELSE fields[k]]]

\* class Failed extends TypedError("Failed")
Failed(shape) == TypedError("Failed", shape)

\* class Defect extends TypedError("Defect")
Defect(shape) == TypedError("Defect", shape)

\* fail(): the error it throws
fail == Failed(EmptyMap)

\* defect(error): the error it throws
defect(error) ==
    IF InstanceOfError(error)
    THEN Defect(Spread(error))
    ELSE Defect([message |-> "Unexpected error", cause |-> error])

\* what a caller can hand to defect: nothing, raw values, and Error objects
DefectInputs ==
    {Undefined, Value(0), Value(1),
     NewError("boom", Undefined),
     NewError("boom", Value(1)),
     Assigned(NewError("boom", Undefined), "cause", Value(2)),
     Failed(EmptyMap),
     Failed([message |-> "no", resource |-> Value(1)])}

CallDefect ==
    \E error \in DefectInputs :
        /\ Len(raised) < MaxRaised
        /\ raised' = Append(raised, [via |-> "defect", input |-> error,
                                     error |-> defect(error)])
        /\ UNCHANGED <<provVars, ctxVars, ghostVars, resVars, shellVars, tokenVars, sigVars, asyncVars>>

CallFail ==
    /\ Len(raised) < MaxRaised
    /\ raised' = Append(raised, [via |-> "fail", input |-> Undefined, error |-> fail])
    /\ UNCHANGED <<provVars, ctxVars, ghostVars, resVars, shellVars, tokenVars, sigVars, asyncVars>>

InitDefect ==
    /\ InitProv(EmptyProvider)
    /\ InitCtx({}, EmptyProvider)
    /\ InitGhost
    /\ InitRes
    /\ InitShell
    /\ InitErr
    /\ InitTokens
    /\ InitSig({})
    /\ InitAsync

NextDefect == CallDefect \/ CallFail

SpecDefect == InitDefect /\ [][NextDefect]_vars

(***************************************************************************)
(* Spec: Providers, Contexts and their methods together                    *)
(***************************************************************************)
\* Config and Service (A, B); a mutual cycle beside a promise; a falsy value,
\* a truthy value and a throwing factory; a diamond over B
ScenarioProviders ==
    {("A" :> Fn(<<>>, "return") @@ "B" :> Fn(<<"A">>, "return")),
     ("A" :> Fn(<<"B">>, "return") @@ "B" :> Fn(<<"A">>, "return")
        @@ "C" :> Fn(<<>>, "promise")),
     ("A" :> Value(0) @@ "B" :> Value(1) @@ "C" :> Fn(<<>>, "throw")),
     ("A" :> Fn(<<"B", "C">>, "return") @@ "B" :> Fn(<<>>, "return")
        @@ "C" :> Fn(<<"B">>, "return"))}

Init ==
    \E P \in ScenarioProviders :
        /\ InitProv(P)
        /\ InitCtx({}, EmptyProvider)
        /\ InitGhost
        /\ InitRes
        /\ InitShell
        /\ InitErr
        /\ InitTokens
        /\ InitSig({})
        /\ InitAsync

Next ==
    \/ CallProvide \/ CallPick \/ CallOmit \/ CallMerge \/ CallGet
    \/ NewContext
    \/ GetCall \/ FactoryRead \/ FactoryReturn \/ FactoryThrow \/ Unwind \/ Settle

Spec == Init /\ [][Next]_vars

(***************************************************************************)
(* SpecRebind: chains of provide calls from the empty Provider             *)
(***************************************************************************)
NextRebind == Provide

SpecRebind == InitProvider /\ [][NextRebind]_vars

(***************************************************************************)
(* SpecSignal: Contexts constructed with and without a signal              *)
(***************************************************************************)
InitSignal ==
    \E P \in ScenarioProviders :
        /\ InitProv(P)
        /\ InitCtx({}, EmptyProvider)
        /\ InitGhost
        /\ InitRes
        /\ InitShell
        /\ InitErr
        /\ InitTokens
        /\ InitSig({})
        /\ InitAsync

NextSignal == NewContext \/ NewContextWith \/ Abort

SpecSignal == InitSignal /\ [][NextSignal]_vars

(***************************************************************************)
(* SpecAsync: Contexts over Providers with async factories                 *)
(***************************************************************************)
\* an async factory that gets its own token; two that get each other's; an
\* acyclic graph under an async factory; an async factory beside an unbound
\* token and a throwing factory; an async factory read by a synchronous one
AsyncProviders ==
    {("A" :> AsyncFn(<<"A">>)),
     ("A" :> AsyncFn(<<"B">>) @@ "B" :> AsyncFn(<<"A">>)),
     ("A" :> AsyncFn(<<"B", "C">>) @@ "B" :> Value(1) @@ "C" :> Fn(<<"B">>, "return")),
     ("A" :> AsyncFn(<<"C">>) @@ "B" :> Fn(<<"A">>, "throw")),
     ("A" :> Fn(<<"B">>, "return") @@ "B" :> AsyncFn(<<"A">>))}

InitAsyncContexts ==
    \E P \in AsyncProviders :
        /\ InitProv(P)
        /\ InitCtx(Contexts, P)
        /\ InitGhost
        /\ InitRes
        /\ InitShell
        /\ InitErr
        /\ InitTokens
        /\ InitSig(Contexts)
        /\ InitAsync

NextAsync ==
    \/ TopGet \/ FactoryRead \/ FactoryReturn \/ FactoryThrow \/ Unwind
    \/ TaskGet \/ TaskAwait \/ TaskResume \/ TaskFinish

SpecAsync == InitAsyncContexts /\ [][NextAsync]_vars

(***************************************************************************)
(* Properties                                                              *)
(***************************************************************************)
IsFunction(c, key) ==
    MapHas(ctxProvider[c], key) /\ ctxProvider[c][key].kind = "function"

\* C1: within one Context every get(id) that returns gives the one cached
\* instance, and the factory function of a cached id was invoked exactly once,
\* also when id is requested again while the promise its factory returned is
\* still pending.
C1_CachedOnce ==
    \A c \in Contexts, key \in Keys :
        /\ Cardinality(got[c][key]) <= 1
        /\ got[c][key] # {} =>
              MapHas(CacheOf(c), key) /\ got[c][key] = {MapGet(CacheOf(c), key)}
        /\ (MapHas(CacheOf(c), key) /\ IsFunction(c, key)) => invoked[c][key] = 1

\* a second caller was handed the pending promise of the first caller's resolution
C1_Witness ==
    /\ last.ok /\ last.hit /\ last.ctx \in Contexts
    /\ last.value.kind = "promise"
    /\ promises[last.ctx][last.key] = "pending"
    /\ invoked[last.ctx][last.key] = 1

\* a nested get has just thrown the circular-dependency error and no frame
\* has been left yet
CycleDetected ==
    /\ exc.thrown
    /\ ~last.ok
    /\ last.depth = Len(stack)
    /\ last.error = CircularError(last.key)
    /\ \E j \in 1..Len(stack) : stack[j].key = last.key /\ stack[j].ctx = last.ctx

\* the identities on the cycle: from the frame of the re-requested key to the top
CycleKeys ==
    LET j == CHOOSE i \in 1..Len(stack) : stack[i].key = last.key
    IN  {stack[i].key : i \in j..Len(stack)}

\* the token keys an error message names
NamedKeys(error) == {error.message[i] : i \in DOMAIN error.message} \cap Keys

\* C2: when factories form a cycle, the error Context.get fails with names the
\* identities on the cycle.
C2_NamesCycle == CycleDetected => NamedKeys(last.error) = CycleKeys

\* C3: Context.get(id) for an id with no factory in the Context's Provider fails
\* with the not-provided error on every call, and nothing is cached for id.
C3_NotProvided ==
    /\ \A c \in Contexts, key \in Keys :
          ~MapHas(ctxProvider[c], key) =>
              ~MapHas(CacheOf(c), key) /\ got[c][key] = {}
    /\ (last.ctx \in Contexts /\ ~MapHas(ctxProvider[last.ctx], last.key)) =>
          ~last.ok /\ last.error = NotProvidedError(last.key)

\* the second of two top-level calls for the same unbound id has failed
C3_Witness ==
    /\ gets = 2 /\ stack = <<>>
    /\ last.ctx \in Contexts
    /\ ~MapHas(ctxProvider[last.ctx], last.key)
    /\ requested = [c \in Contexts |-> IF c = last.ctx THEN {last.key} ELSE {}]
    /\ ~last.ok /\ last.error = NotProvidedError(last.key)

\* what the factory bound to key produces when called with context c for the first time
Produces(factory, c, key) ==
    IF factory.kind = "value" THEN factory
    ELSE IF factory.result = "promise" THEN Promise(c, key, 1)
    ELSE Object(c, key, 1)

\* a factory that needs nothing from the context and does not throw
SelfContained(factory) ==
    factory.kind = "value" \/ (factory.deps = <<>> /\ factory.result # "throw")

\* C4: for P binding A and B, a Context built from P.pick(A, B).omit(B) resolves A
\* to the instance P's factory for A produces, and resolving B fails with the
\* not-provided error.
C4_PickOmit ==
    (last.ctx \in Contexts /\ last.depth = 0) =>
        /\ (last.key = "A" /\ SelfContained(providers[1]["A"])) =>
              last.ok /\ last.value = Produces(providers[1]["A"], last.ctx, "A")
        /\ last.key = "B" =>
              ~last.ok /\ last.error = NotProvidedError("B")

Mutators == {"provide", "merge", "pick", "omit"}

\* C5: every Provider mutator (provide, merge, pick, omit) returns a new Provider
\* and leaves the receiver's bindings unchanged.
C5_MutatorsReturnNew ==
    lastCall.op \in Mutators =>
        /\ ~lastCall.threw
        /\ lastCall.ret = Len(providers)
        /\ providers[lastCall.recv] = lastCall.before

\* the union of the bindings of a and b in which b's binding wins
UnionLaterWins(a, b) ==
    [k \in (DOMAIN a) \cup (DOMAIN b) |-> IF k \in DOMAIN b THEN b[k] ELSE a[k]]

\* C6: merge(a, b) returns a Provider whose bindings are the union of those of a
\* and b, with b's factory for a key bound in both.
C6_MergeUnion ==
    lastCall.op = "merge" =>
        /\ ~lastCall.threw
        /\ lastCall.ret \in 1..Len(providers)
        /\ providers[lastCall.ret] =
              UnionLaterWins(lastCall.before, providers[lastCall.other])

ConfigService(c) ==
    /\ MapGet(ctxProvider[c], "A") = Fn(<<>>, "return")
    /\ MapGet(ctxProvider[c], "B") = Fn(<<"A">>, "return")

C10_ResultModeNeverRaises ==
    \A i \in 1..Len(shellLog) :
        (shellLog[i].method = "run" /\ shellLog[i].mode \in {"", "result"}) =>
            ~shellLog[i].threw

\* the entries of the log of Shell and Program calls made by method
Entries(methods) == {i \in 1..Len(shellLog) : shellLog[i].method \in methods}

\* the error a run ended with: the one it raised or the one in the Failure it returned
RunError(e) == IF e.threw THEN e.error ELSE e.ret.error

\* C11: running a program whose set of unresolved requirements is not empty
\* fails before any computation or factory of the program is executed, and the
\* failure names the missing identities.
C11_FailsFastNamingMissing ==
    \A i \in Entries({"run"}) :
        LET e == shellLog[i]
        IN  e.program.requires # {} =>
                /\ e.threw \/ e.ret.isFailure
                /\ e.calls = 0
                /\ NamedKeys(RunError(e)) = e.program.requires

\* C12: for every value v, try(() => v) returns a program, and running that
\* program yields Success(v).
C12_LiftedValueSucceeds ==
    /\ \A i \in Entries({"try"}) :
          ~shellLog[i].threw /\ shellLog[i].ret = shellLog[i].program
    /\ \A i \in Entries({"run"}) :
          LET e == shellLog[i]
          IN  (/\ e.program.settles = "success"
               /\ e.program.requires = {}
               /\ e.mode \in {"", "result"}) =>
                  ~e.threw /\ e.ret = Success(e.program.with)

\* C13: retry({times: n, delay: 0}) on a computation that always fails returns
\* a program that invokes the upstream computation exactly n + 1 times and then
\* fails with the upstream failure.
C13_RetryAttempts ==
    \A i \in Entries({"retry"}) :
        LET e == shellLog[i]
        IN  e.program.settles = "failure" =>
                /\ ~e.threw
                /\ e.ret.attempts = e.args.times + 1
                /\ e.ret.settles = "failure"
                /\ e.ret.with = e.program.with

\* the positions of the programs of a list that settle as named
Settling(programs, how) == {j \in 1..Len(programs) : programs[j].settles = how}

\* the least position of a non-empty set of positions
First(positions) == CHOOSE j \in positions : \A k \in positions : j <= k

\* C14: all(nodes) returns a program that fails with the error of the first
\* failing node in node-list order, whatever the order in which the nodes
\* settle, and succeeds with the values in node-list order if every node succeeds.
C14_AllFirstFailureInListOrder ==
    \A i \in Entries({"all"}) :
        LET e == shellLog[i]
            programs == e.args.programs
            failing == Settling(programs, "failure")
        IN  /\ ~e.threw
            /\ IF failing # {}
               THEN /\ e.ret.settles = "failure"
                    /\ e.ret.with = programs[First(failing)].with
               ELSE /\ e.ret.settles = "success"
                    /\ e.ret.with = [j \in 1..Len(programs) |-> programs[j].with]

\* C15: any(nodes) returns a program that succeeds with the value of the first
\* node to succeed, and if every node fails it fails with an AggregateError
\* carrying every node's error in input order.
C15_AnyFirstSuccessOrAggregate ==
    \A i \in Entries({"any"}) :
        LET e == shellLog[i]
            programs == e.args.programs
            order == e.args.order
            won == {k \in 1..Len(order) : programs[order[k]].settles = "success"}
        IN  /\ ~e.threw
            /\ IF won # {}
               THEN /\ e.ret.settles = "success"
                    /\ e.ret.with = programs[order[First(won)]].with
               ELSE /\ e.ret.settles = "failure"
                    /\ e.ret.with.name = "AggregateError"
                    /\ e.ret.with.errors =
                          [j \in 1..Len(programs) |-> programs[j].with]

\* C16: race(nodes) returns a program that settles as the node that settles
\* first does; the other nodes are then cancelled and the finally of each
\* cancelled node is executed.
C16_RaceFirstSettled ==
    \A i \in Entries({"race"}) :
        LET e == shellLog[i]
            programs == e.args.programs
            winner == e.args.order[1]
        IN  /\ ~e.threw
            /\ e.ret.settles = programs[winner].settles
            /\ e.ret.with = programs[winner].with
            /\ e.ret.cancelled = (1..Len(programs)) \ {winner}
            /\ e.ret.cancelled \subseteq e.ret.finalized

\* C17: catch(name, handler) returns a program that invokes the handler only
\* when the program has failed with an error whose key is name; any other
\* failure and every success pass through unmodified.
C17_CatchByKey ==
    \A i \in Entries({"catch"}) :
        LET e == shellLog[i]
            fires == e.program.settles = "failure" /\ e.program.with = e.args.name
        IN  /\ ~e.threw
            /\ e.ret.handled = fires
            /\ ~fires => /\ e.ret.settles = e.program.settles
                         /\ e.ret.with = e.program.with

Builders ==
    {"try", "fail", "all", "any", "race", "then", "catch", "tap", "finally",
     "retry", "timeout", "provide"}

\* C18: every builder returns a new program node without invoking a user
\* callback or factory and without changing the node it was called on.
C18_BuildersReturnNodes ==
    \A i \in Entries(Builders) :
        LET e == shellLog[i]
        IN  /\ e.calls = 0
            /\ e.this = e.program
            /\ ~e.threw
            /\ e.ret # Undefined

\* C19: binding a token with provide never replaces or shadows the binding of
\* a different token: every token class bound along the chain of provide calls
\* that built a Provider resolves, in that Provider, to the factory it was
\* bound to.
C19_OwnFactories ==
    \A i \in 1..Len(providers), token \in TokenClasses :
        token.id \in DOMAIN bound[i] =>
            LET r == ProviderGet(providers[i], token.key)
            IN  ~r.threw /\ r.ret = bound[i][token.id]

\* C20: for every input of defect, an Error instance or any other raw value,
\* the cause of the Defect it raises is the input.
C20_CausePreserved ==
    \A i \in 1..Len(raised) :
        raised[i].via = "defect" => raised[i].error.cause = raised[i].input

\* C24: pick(ids) returns a Provider whose bound keys are exactly the requested
\* ids bound in the receiver, omit(ids) one whose bound keys are exactly the
\* receiver's keys not in ids; every retained key keeps the receiver's
\* factory, and neither call fails.
C24_PickOmitExact ==
    lastCall.op \in {"pick", "omit"} =>
        /\ ~lastCall.threw
        /\ lastCall.ret \in 1..Len(providers)
        /\ LET kept == providers[lastCall.ret]
               receiver == lastCall.before
           IN  /\ DOMAIN kept =
                     IF lastCall.op = "pick"
                     THEN lastCall.tokens \cap DOMAIN receiver
                     ELSE (DOMAIN receiver) \ lastCall.tokens
               /\ \A k \in DOMAIN kept : kept[k] = receiver[k]

\* C29: provide(id, f) returns a Provider in which id is bound to f, also when
\* the receiver already binds id, every other key keeps the factory it had in
\* the receiver, and the bound keys are the receiver's and id.
C29_LaterBindingWins ==
    lastCall.op = "provide" =>
        /\ ~lastCall.threw
        /\ lastCall.ret \in 1..Len(providers)
        /\ LET made == providers[lastCall.ret]
               receiver == lastCall.before
           IN  /\ DOMAIN made = (DOMAIN receiver) \cup {lastCall.key}
               /\ made[lastCall.key] = lastCall.other
               /\ \A k \in (DOMAIN receiver) \ {lastCall.key} : made[k] = receiver[k]

\* provide has replaced the factory of a key the receiver already bound
C29_Witness ==
    /\ lastCall.op = "provide"
    /\ lastCall.ret \in 1..Len(providers)
    /\ lastCall.key \in DOMAIN lastCall.before
    /\ lastCall.before[lastCall.key] # lastCall.other
    /\ providers[lastCall.ret][lastCall.key] = lastCall.other

\* C30: Provider.get(id) fails with the not-provided error exactly when id has
\* no binding in the Provider, and returns the bound factory otherwise, whatever
\* was bound; pick retains every requested id that is bound.
C30_GetFailsOnlyWhenUnbound ==
    /\ lastCall.op = "get" =>
          IF lastCall.key \in DOMAIN lastCall.before
          THEN ~lastCall.threw /\ lastCall.value = lastCall.before[lastCall.key]
          ELSE lastCall.threw /\ lastCall.error = NotProvidedError(lastCall.key)
    /\ (lastCall.op = "pick" /\ lastCall.ret \in 1..Len(providers)) =>
          lastCall.tokens \cap DOMAIN lastCall.before
              \subseteq DOMAIN providers[lastCall.ret]

\* C21: the cache holds only settled instances, never a promise that is still
\* pending, and an identity whose factory returned a promise stays in the
\* in-progress set until the promise has settled.
C21_CacheHoldsSettled ==
    \A c \in Contexts, key \in Keys :
        /\ (MapHas(CacheOf(c), key) /\ CacheOf(c)[key].kind = "promise") =>
              promises[c][key] \in {"fulfilled", "rejected"}
        /\ promises[c][key] = "pending" => key \in ResolvingOf(c)

\* the identities whose factory invocation is on the call stack for context c
Active(c) == {stack[j].key : j \in {i \in 1..Len(stack) : stack[i].ctx = c}}

\* C25: the in-progress set of a Context is exactly the set of identities whose
\* factory invocation has started and has not yet returned or thrown; it is
\* empty when no get is active, and a nested get that fails with the
\* circular-dependency error leaves the outer identity in it.
C25_InProgressExact ==
    \A c \in Contexts : ResolvingOf(c) = Active(c)

\* a nested get has just failed with the circular-dependency error and the
\* identity it names is still in progress
C25_Witness ==
    /\ CycleDetected
    /\ last.key \in ResolvingOf(last.ctx)
    /\ last.key \in Active(last.ctx)

\* C26: once an instance is cached for id in a Context, no step replaces or
\* removes it, and the factory of id is not invoked again in that Context.
C26_WriteOnce ==
    [][\A c \in Contexts, key \in Keys :
          MapHas(CacheOf(c), key) =>
              /\ MapHas(cache'[CacheRef(c)], key)
              /\ cache'[CacheRef(c)][key] = CacheOf(c)[key]
              /\ invoked'[c][key] = invoked[c][key]]_vars

\* a second top-level get was answered from the cache with the object the one
\* invocation of the factory returned
C26_Witness ==
    /\ gets = 2 /\ stack = <<>>
    /\ last.ok /\ last.hit /\ last.depth = 0
    /\ last.value.kind = "object"
    /\ invoked[last.ctx][last.key] = 1

\* what has been requested when every top-level get was get(key) on context c
OnlyRequested(c, key) == [x \in Contexts |-> IF x = c THEN {key} ELSE {}]

\* C27: a get(id) that fails caches nothing for id and leaves every cached
\* instance as it was; once control is back at the top level the in-progress
\* set is empty again, and when id is the only identity ever requested each
\* of the gets has invoked the factory of id anew.
C27_FailureLeavesNoTrace ==
    [][(~last'.ok /\ last'.ctx \in Contexts) =>
          LET c == last'.ctx
              key == last'.key
          IN  /\ ~MapHas(cache'[CacheRef(c)], key)
              /\ \A k \in DOMAIN CacheOf(c) :
                    /\ MapHas(cache'[CacheRef(c)], k)
                    /\ cache'[CacheRef(c)][k] = CacheOf(c)[k]
              /\ stack' = <<>> => resolving'[ResolvingRef(c)] = {}
              /\ (stack' = <<>> /\ requested' = OnlyRequested(c, key)) =>
                    invoked'[c][key] = IF IsFunction(c, key) THEN gets' ELSE 0]_vars

\* the second get of an identity whose factory throws has invoked the factory
\* again and failed again
C27_Witness ==
    /\ gets = 2 /\ stack = <<>>
    /\ ~last.ok /\ last.depth = 0
    /\ last.ctx \in Contexts
    /\ last.error = FactoryError(last.key)
    /\ invoked[last.ctx][last.key] = 2
    /\ ResolvingOf(last.ctx) = {}

\* the identities the factory bound to key in P requests
Deps(P, key) ==
    IF MapHas(P, key) /\ P[key].kind = "function"
    THEN {P[key].deps[i] : i \in DOMAIN P[key].deps}
    ELSE {}

\* the identities requested, directly or not, on behalf of those in S
RECURSIVE Closure(_, _)
Closure(P, S) ==
    LET next == S \cup UNION {Deps(P, k) : k \in S}
    IN  IF next = S THEN S ELSE Closure(P, next)

\* key is requested while its own factory is running
OnCycle(P, key) == key \in Closure(P, Deps(P, key))

\* every identity is bound, no factory throws and no identity is on a cycle
Sound(P) ==
    /\ DOMAIN P = Keys
    /\ \A k \in Keys :
          /\ Truthy(P[k])
          /\ P[k].kind = "function" => P[k].result # "throw"
          /\ ~OnCycle(P, k)

\* C28: a get fails with the circular-dependency error for id only if id is
\* requested while its own factory invocation is running; in an acyclic
\* dependency graph, a diamond included, every get succeeds and every
\* factory runs at most once.
C28_NoFalsePositive ==
    /\ \A key \in Keys :
          (last.ctx \in Contexts /\ ~last.ok /\ last.error = CircularError(key)) =>
              OnCycle(ctxProvider[last.ctx], key)
    /\ \A c \in Contexts :
          Sound(ctxProvider[c]) =>
              /\ last.ctx = c => last.ok
              /\ \A k \in Keys : invoked[c][k] <= 1

\* the diamond A -> {B, C}, C -> B has been resolved through A and the
\* factory of the shared B has run once
C28_Witness ==
    \E c \in Contexts :
        /\ ctxProvider[c] = ("A" :> Fn(<<"B", "C">>, "return")
                             @@ "B" :> Fn(<<>>, "return")
                             @@ "C" :> Fn(<<"B">>, "return"))
        /\ stack = <<>>
        /\ last.ctx = c /\ last.key = "A" /\ last.ok
        /\ invoked[c] = [k \in Keys |-> 1]

\* C22: every instance a get returned settles in the end: no group of pending
\* instances is left in which each one's factory is awaiting another of the
\* group, since such a group stays pending for ever.
C22_NoDeadlock ==
    ~ \E c \in Contexts, S \in (SUBSET Keys) \ {{}} :
          /\ stack = <<>>
          /\ \A k \in S :
                /\ promises[c][k] = "pending"
                /\ tasks[c][k].state = "awaiting"
                /\ tasks[c][k].awaits.kind = "promise"
                /\ tasks[c][k].awaits.ctx = c
                /\ tasks[c][k].awaits.key \in S

\* C23: a Context constructed with a signal exposes that very signal; one
\* constructed without a signal exposes a signal of its own that no caller's
\* controller aborts.
C23_SignalExposed ==
    \A c \in built :
        /\ given[c] \in Signals => signal[c] = given[c]
        /\ given[c] \notin Signals =>
              /\ signal[c].kind = "signal"
              /\ signal[c] \notin Signals
              /\ signal[c] \notin aborted

\* one Context exposes the caller's signal, which has been aborted, beside a
\* Context built without a signal whose own signal is not aborted
C23_Witness ==
    \E c \in built, d \in built :
        /\ given[c] \in Signals
        /\ signal[c] = given[c]
        /\ signal[c] \in aborted
        /\ given[d] = Undefined
        /\ signal[d] = DefaultSignal(d)
        /\ signal[d] \notin aborted
====
